---- MODULE Spec2Model ----
(***************************************************************************)
(* Model of the SpacetimeDB polling module (spacetime-module/src/lib.rs):  *)
(* five tables with primary keys, and the reducers join_session,           *)
(* create_poll, activate_poll, submit_vote, show_results, end_session and  *)
(* the init lifecycle reducer.  Every reducer is a transaction: it runs to *)
(* completion, and a reducer that returns Err or panics commits nothing.   *)
(***************************************************************************)
EXTENDS Integers, Sequences, FiniteSets, TLC

(* ---------------- bounds of the model ---------------- *)
MaxPolls == 2
MaxOptions == 2

Callers == {1, 2}
RoleArgs == {"user", "admin", "guest"}
Questions == {"q1"}
OptionTexts == <<"a", "b", "c", "d">>
OptionLists == {SubSeq(OptionTexts, 1, n) : n \in 0..MaxOptions}
PollIdArgs == 1..MaxPolls
OptionIdArgs == 1..MaxOptions

\* what one run of the host may supply: the last value of its clock, how many
\* polls it lets be created, the session ids callers pass, and whether the
\* host runs init before it accepts calls (as it does on first publish)
WideLimits == [max_time |-> 1, max_polls |-> MaxPolls, sessions |-> {"s1"},
               init_first |-> TRUE]
TimedLimits == [max_time |-> 2, max_polls |-> 1, sessions |-> {"s1"},
                init_first |-> TRUE]

(* ---------------- state ---------------- *)
VARIABLES user, poll, poll_option, vote, presentation_state,
          clock, init_ran, call, limits, pending

tables == <<user, poll, poll_option, vote, presentation_state>>
vars == <<user, poll, poll_option, vote, presentation_state, clock, init_ran, call,
          limits, pending>>

\* ctx.db: the five tables handed to a reducer
Db == [user |-> user, poll |-> poll, poll_option |-> poll_option,
       vote |-> vote, presentation_state |-> presentation_state]

\* ctx.sender.to_string(): the printed form of the caller's identity
to_string(sender) == <<"id-1", "id-2">>[sender]

(* ---------------- outcome of a reducer body ---------------- *)
Ok(db) == [db |-> db, result |-> "ok"]
Err(db, msg) == [db |-> db, result |-> msg]
UniquePanic == "panic: unique constraint violation"
MissingPanic == "panic: no row to update"
\* run the rest of the body only if nothing panicked so far
Then(r, F(_)) == IF r.result = "ok" THEN F(r.db) ELSE r

(* ---------------- the tables and their primary keys ---------------- *)
user_find(db, user_id) == {u \in db.user : u.user_id = user_id}
user_insert(db, row) ==
    IF user_find(db, row.user_id) # {} THEN Err(db, UniquePanic)
    ELSE Ok([db EXCEPT !.user = @ \cup {row}])
user_update(db, row) ==
    IF user_find(db, row.user_id) = {} THEN Err(db, MissingPanic)
    ELSE Ok([db EXCEPT !.user = (@ \ user_find(db, row.user_id)) \cup {row}])

poll_find(db, poll_id) == {p \in db.poll : p.poll_id = poll_id}
poll_insert(db, row) ==
    IF poll_find(db, row.poll_id) # {} THEN Err(db, UniquePanic)
    ELSE Ok([db EXCEPT !.poll = @ \cup {row}])
poll_update(db, row) ==
    IF poll_find(db, row.poll_id) = {} THEN Err(db, MissingPanic)
    ELSE Ok([db EXCEPT !.poll = (@ \ poll_find(db, row.poll_id)) \cup {row}])

poll_option_insert(db, row) ==
    IF \E o \in db.poll_option : o.option_id = row.option_id
    THEN Err(db, UniquePanic)
    ELSE Ok([db EXCEPT !.poll_option = @ \cup {row}])

vote_insert(db, row) ==
    IF \E v \in db.vote : v.vote_id = row.vote_id THEN Err(db, UniquePanic)
    ELSE Ok([db EXCEPT !.vote = @ \cup {row}])
vote_update(db, row) ==
    IF ~ \E v \in db.vote : v.vote_id = row.vote_id THEN Err(db, MissingPanic)
    ELSE Ok([db EXCEPT !.vote = {v \in @ : v.vote_id # row.vote_id} \cup {row}])

presentation_state_find(db, id) == {s \in db.presentation_state : s.id = id}
presentation_state_insert(db, row) ==
    IF presentation_state_find(db, row.id) # {} THEN Err(db, UniquePanic)
    ELSE Ok([db EXCEPT !.presentation_state = @ \cup {row}])
presentation_state_update(db, row) ==
    IF presentation_state_find(db, row.id) = {} THEN Err(db, MissingPanic)
    ELSE Ok([db EXCEPT !.presentation_state =
                (@ \ presentation_state_find(db, row.id)) \cup {row}])

initial_state == [id |-> 0, current_poll_id |-> 0, state |-> "waiting"]

(* ---------------- reducer bodies ---------------- *)
\* each body returns the tables as it left them and "ok" or the error

\* a join that never creates the presentation state
lazy_init_skip(db) == Ok(db)

\* "Initialize presentation state if it doesn't exist"
lazy_init(db) ==
    IF presentation_state_find(db, 0) = {}
    THEN presentation_state_insert(db, initial_state)
    ELSE Ok(db)

\* a join that leaves the row of a caller who has one as it is
join_session_body_keep(db, sender, session_id, role, ts) ==
    IF role # "user" /\ role # "admin"
    THEN Err(db, "Invalid role. Must be 'user' or 'admin'")
    ELSE LET u == [user_id |-> to_string(sender), session_id |-> session_id,
                   role |-> role, connected_at |-> ts]
             r1 == IF user_find(db, u.user_id) # {}
                   THEN Ok(db)
                   ELSE user_insert(db, u)
         IN Then(r1, LAMBDA d : lazy_init(d))

\* a join that keeps the role of a caller who has a row
join_session_body_keep_role(db, sender, session_id, role, ts) ==
    IF role # "user" /\ role # "admin"
    THEN Err(db, "Invalid role. Must be 'user' or 'admin'")
    ELSE LET found == user_find(db, to_string(sender))
             u == [user_id |-> to_string(sender), session_id |-> session_id,
                   role |-> IF found # {} THEN (CHOOSE x \in found : TRUE).role
                            ELSE role,
                   connected_at |-> ts]
             r1 == IF found # {}
                   THEN user_update(db, u)
                   ELSE user_insert(db, u)
         IN Then(r1, LAMBDA d : lazy_init(d))

join_session_body(db, sender, session_id, role, ts) ==
    IF role # "user" /\ role # "admin"
    THEN Err(db, "Invalid role. Must be 'user' or 'admin'")
    ELSE LET u == [user_id |-> to_string(sender), session_id |-> session_id,
                   role |-> role, connected_at |-> ts]
             r1 == IF user_find(db, u.user_id) # {}
                   THEN user_update(db, u)
                   ELSE user_insert(db, u)
         IN Then(r1, LAMBDA d : lazy_init(d))

\* the loop over options.iter().enumerate(), from index i on
RECURSIVE insert_options(_, _, _, _)
insert_options(db, poll_id, options, i) ==
    IF i > Len(options) THEN Ok(db)
    ELSE Then(poll_option_insert(db, [option_id |-> i, poll_id |-> poll_id,
                                      text |-> options[i]]),
              LAMBDA d : insert_options(d, poll_id, options, i + 1))

create_poll_body(db, sender, question, options, ts) ==
    LET found == user_find(db, to_string(sender)) IN
    IF found = {} THEN Err(db, "User not found")
    ELSE IF (CHOOSE u \in found : TRUE).role # "admin"
    THEN Err(db, "Only admins can create polls")
    ELSE LET poll_id == Cardinality(db.poll) + 1
             row == [poll_id |-> poll_id, question |-> question,
                     is_active |-> FALSE, created_at |-> ts]
         IN Then(poll_insert(db, row),
                 LAMBDA d : insert_options(d, poll_id, options, 1))

\* a variant that leaves the other polls as they are
deactivate_none(db, poll_id) == db

\* "Deactivate all other polls": every active row but poll_id is rewritten
deactivate_others(db, poll_id) ==
    [db EXCEPT !.poll = {IF p.poll_id # poll_id /\ p.is_active
                         THEN [p EXCEPT !.is_active = FALSE] ELSE p : p \in @}]

\* "Update presentation state" of activate_poll, skipped
set_voting_skip(db, poll_id) == Ok(db)

\* "Update presentation state": only if the row is there
set_voting(db, poll_id) ==
    IF presentation_state_find(db, 0) # {}
    THEN presentation_state_update(db,
            [id |-> 0, current_poll_id |-> poll_id, state |-> "voting"])
    ELSE Ok(db)

\* "Check if poll exists" and what follows it
activate_poll_found(db, poll_id) ==
    IF poll_find(db, poll_id) = {} THEN Err(db, "Poll not found")
    ELSE LET target == CHOOSE p \in poll_find(db, poll_id) : TRUE
             d1 == deactivate_others(db, poll_id)
             r2 == poll_update(d1, [poll_id |-> poll_id, question |-> target.question,
                                    is_active |-> TRUE, created_at |-> target.created_at])
         IN Then(r2, LAMBDA d : set_voting(d, poll_id))

\* a variant that looks the poll up before it looks at the caller's role
activate_poll_body_poll_first(db, sender, poll_id) ==
    LET found == user_find(db, to_string(sender)) IN
    IF poll_find(db, poll_id) = {} THEN Err(db, "Poll not found")
    ELSE IF found = {} THEN Err(db, "User not found")
    ELSE IF (CHOOSE u \in found : TRUE).role # "admin"
    THEN Err(db, "Only admins can activate polls")
    ELSE activate_poll_found(db, poll_id)

activate_poll_body(db, sender, poll_id) ==
    LET found == user_find(db, to_string(sender)) IN
    IF found = {} THEN Err(db, "User not found")
    ELSE IF (CHOOSE u \in found : TRUE).role # "admin"
    THEN Err(db, "Only admins can activate polls")
    ELSE activate_poll_found(db, poll_id)

\* a scan that never finds the caller's vote
existing_vote_id_none(db, poll_id, user_id) == {}

\* the scan for the caller's vote on this poll: Some(vote_id) as a set
existing_vote_id(db, poll_id, user_id) ==
    {v.vote_id : v \in {w \in db.vote : w.poll_id = poll_id /\ w.user_id = user_id}}

\* an update that keeps the old voted_at
update_existing_vote_stale(db, vote_id, poll_id, user_id, option_id, ts) ==
    LET old == CHOOSE v \in db.vote : v.vote_id = vote_id IN
    vote_update(db, [vote_id |-> vote_id, poll_id |-> poll_id, user_id |-> user_id,
                     option_id |-> option_id, voted_at |-> old.voted_at])

\* "Update existing vote"
update_existing_vote(db, vote_id, poll_id, user_id, option_id, ts) ==
    vote_update(db, [vote_id |-> vote_id, poll_id |-> poll_id, user_id |-> user_id,
                     option_id |-> option_id, voted_at |-> ts])

\* a new vote numbered by the row count, without the + 1
create_new_vote_off(db, poll_id, user_id, option_id, ts) ==
    vote_insert(db, [vote_id |-> Cardinality(db.vote),
                     poll_id |-> poll_id, user_id |-> user_id,
                     option_id |-> option_id, voted_at |-> ts])

\* "Create new vote"
create_new_vote(db, poll_id, user_id, option_id, ts) ==
    vote_insert(db, [vote_id |-> Cardinality(db.vote) + 1,
                     poll_id |-> poll_id, user_id |-> user_id,
                     option_id |-> option_id, voted_at |-> ts])

\* "Look for existing vote" and the update or insert that follows
cast_vote(db, user_id, poll_id, option_id, ts) ==
    LET existing == existing_vote_id(db, poll_id, user_id) IN
    IF existing # {}
    THEN update_existing_vote(db, CHOOSE id \in existing : TRUE,
                              poll_id, user_id, option_id, ts)
    ELSE create_new_vote(db, poll_id, user_id, option_id, ts)

\* a variant that looks for the option before it looks at is_active
submit_vote_body_option_first(db, sender, poll_id, option_id, ts) ==
    IF user_find(db, to_string(sender)) = {} THEN Err(db, "User not found")
    ELSE IF poll_find(db, poll_id) = {} THEN Err(db, "Poll not found")
    ELSE IF ~ \E o \in db.poll_option : o.poll_id = poll_id /\ o.option_id = option_id
    THEN Err(db, "Option not found for this poll")
    ELSE IF ~ (CHOOSE p \in poll_find(db, poll_id) : TRUE).is_active
    THEN Err(db, "Poll is not active")
    ELSE cast_vote(db, to_string(sender), poll_id, option_id, ts)

\* a variant that does not look for the option at all
submit_vote_body_any_option(db, sender, poll_id, option_id, ts) ==
    IF user_find(db, to_string(sender)) = {} THEN Err(db, "User not found")
    ELSE IF poll_find(db, poll_id) = {} THEN Err(db, "Poll not found")
    ELSE IF ~ (CHOOSE p \in poll_find(db, poll_id) : TRUE).is_active
    THEN Err(db, "Poll is not active")
    ELSE cast_vote(db, to_string(sender), poll_id, option_id, ts)

submit_vote_body(db, sender, poll_id, option_id, ts) ==
    IF user_find(db, to_string(sender)) = {} THEN Err(db, "User not found")
    ELSE IF poll_find(db, poll_id) = {} THEN Err(db, "Poll not found")
    ELSE IF ~ (CHOOSE p \in poll_find(db, poll_id) : TRUE).is_active
    THEN Err(db, "Poll is not active")
    ELSE IF ~ \E o \in db.poll_option : o.poll_id = poll_id /\ o.option_id = option_id
    THEN Err(db, "Option not found for this poll")
    ELSE cast_vote(db, to_string(sender), poll_id, option_id, ts)

\* a results row that forgets the current poll
results_state_reset(old_state) ==
    [id |-> 0, current_poll_id |-> 0, state |-> "results"]

\* new_state of show_results
results_state(old_state) ==
    [id |-> 0, current_poll_id |-> old_state.current_poll_id, state |-> "results"]

show_results_body(db, sender) ==
    LET found == user_find(db, to_string(sender)) IN
    IF found = {} THEN Err(db, "User not found")
    ELSE IF (CHOOSE u \in found : TRUE).role # "admin"
    THEN Err(db, "Only admins can show results")
    ELSE IF presentation_state_find(db, 0) = {}
    THEN Err(db, "Presentation state not found")
    ELSE LET old_state == CHOOSE s \in presentation_state_find(db, 0) : TRUE
         IN presentation_state_update(db, results_state(old_state))

\* an end_session that leaves the polls as they are
deactivate_all_none(db) == db

\* "Deactivate all polls": every active row is rewritten
deactivate_all(db) ==
    [db EXCEPT !.poll = {IF p.is_active THEN [p EXCEPT !.is_active = FALSE] ELSE p
                         : p \in @}]

\* an end_session that also resets current_poll_id
end_session_body_reset(db, sender) ==
    LET found == user_find(db, to_string(sender)) IN
    IF found = {} THEN Err(db, "User not found")
    ELSE IF (CHOOSE u \in found : TRUE).role # "admin"
    THEN Err(db, "Only admins can end the session")
    ELSE IF presentation_state_find(db, 0) = {}
    THEN Err(db, "Presentation state not found")
    ELSE Then(presentation_state_update(db,
                 [id |-> 0, current_poll_id |-> 0, state |-> "ended"]),
              LAMBDA d : Ok(deactivate_all(d)))

end_session_body(db, sender) ==
    LET found == user_find(db, to_string(sender)) IN
    IF found = {} THEN Err(db, "User not found")
    ELSE IF (CHOOSE u \in found : TRUE).role # "admin"
    THEN Err(db, "Only admins can end the session")
    ELSE IF presentation_state_find(db, 0) = {}
    THEN Err(db, "Presentation state not found")
    ELSE LET old_state == CHOOSE s \in presentation_state_find(db, 0) : TRUE
         IN Then(presentation_state_update(db,
                    [id |-> 0, current_poll_id |-> old_state.current_poll_id,
                     state |-> "ended"]),
                 LAMBDA d : Ok(deactivate_all(d)))

\* an init that inserts nothing
init_body_skip(db) == Ok(db)

init_body(db) == presentation_state_insert(db, initial_state)

(* ---------------- the reducer transaction ---------------- *)
\* a host that keeps what a failed reducer had already written
Commit_partial(db, r) == r.db

\* a reducer that returns Err or panics is rolled back: nothing it wrote stays
Commit(db, r) == IF r.result = "ok" THEN r.db ELSE db

\* the last reducer call: which reducer, who called, what it returned
NoCall == [op |-> "none", sender |-> 0, result |-> ""]

\* the calls that have read a row count and not yet inserted: none, when the
\* host runs every reducer to completion before the next
Idle == [op |-> "none"]
NoPending == [c \in Callers |-> Idle]

\* one call of reducer op by sender at timestamp ts with body outcome r
Run(op, sender, ts, r) ==
    LET d == Commit(Db, r) IN
    /\ user' = d.user
    /\ poll' = d.poll
    /\ poll_option' = d.poll_option
    /\ vote' = d.vote
    /\ presentation_state' = d.presentation_state
    /\ clock' = ts
    /\ call' = [op |-> op, sender |-> sender, result |-> r.result]
    /\ UNCHANGED limits

Init ==
    /\ user = {}
    /\ poll = {}
    /\ poll_option = {}
    /\ vote = {}
    /\ presentation_state = {}
    /\ clock = 1
    /\ init_ran = FALSE
    /\ call = NoCall
    /\ pending = NoPending
    /\ limits = WideLimits

\* callers are served once the host has bootstrapped the database
Serving == init_ran \/ ~limits.init_first

\* init_ran: init has run to completion (a panicking init is rolled back)
init ==
    /\ init_ran' = (init_ran \/ init_body(Db).result = "ok")
    /\ Run("init", 0, clock, init_body(Db))
    /\ UNCHANGED pending

join_session_call(sender, session_id, role, ts) ==
    /\ Serving
    /\ Run("join_session", sender, ts,
           join_session_body(Db, sender, session_id, role, ts))
    /\ UNCHANGED <<init_ran, pending>>

join_session ==
    \E sender \in Callers, session_id \in limits.sessions, role \in RoleArgs,
       ts \in clock..limits.max_time :
        join_session_call(sender, session_id, role, ts)

create_poll_call(sender, question, options, ts) ==
    /\ Serving
    /\ Cardinality(poll) < limits.max_polls
    /\ Run("create_poll", sender, ts,
           create_poll_body(Db, sender, question, options, ts))
    /\ UNCHANGED <<init_ran, pending>>

create_poll ==
    \E sender \in Callers, question \in Questions, options \in OptionLists,
       ts \in clock..limits.max_time :
        create_poll_call(sender, question, options, ts)

activate_poll_call(sender, poll_id, ts) ==
    /\ Serving
    /\ Run("activate_poll", sender, ts, activate_poll_body(Db, sender, poll_id))
    /\ UNCHANGED <<init_ran, pending>>

activate_poll ==
    \E sender \in Callers, poll_id \in PollIdArgs, ts \in clock..limits.max_time :
        activate_poll_call(sender, poll_id, ts)

submit_vote_call(sender, poll_id, option_id, ts) ==
    /\ Serving
    /\ Run("submit_vote", sender, ts,
           submit_vote_body(Db, sender, poll_id, option_id, ts))
    /\ UNCHANGED <<init_ran, pending>>

submit_vote ==
    \E sender \in Callers, poll_id \in PollIdArgs, option_id \in OptionIdArgs,
       ts \in clock..limits.max_time :
        submit_vote_call(sender, poll_id, option_id, ts)

show_results_call(sender, ts) ==
    /\ Serving
    /\ Run("show_results", sender, ts, show_results_body(Db, sender))
    /\ UNCHANGED <<init_ran, pending>>

show_results ==
    \E sender \in Callers, ts \in clock..limits.max_time :
        show_results_call(sender, ts)

end_session_call(sender, ts) ==
    /\ Serving
    /\ Run("end_session", sender, ts, end_session_body(Db, sender))
    /\ UNCHANGED <<init_ran, pending>>

end_session ==
    \E sender \in Callers, ts \in clock..limits.max_time :
        end_session_call(sender, ts)

Next ==
    \/ init
    \/ join_session
    \/ create_poll
    \/ activate_poll
    \/ submit_vote
    \/ show_results
    \/ end_session

Spec == Init /\ [][Next]_vars

\* the same reducers under an advancing clock, with one poll
InitTimed ==
    /\ user = {}
    /\ poll = {}
    /\ poll_option = {}
    /\ vote = {}
    /\ presentation_state = {}
    /\ clock = 1
    /\ init_ran = FALSE
    /\ call = NoCall
    /\ pending = NoPending
    /\ limits = TimedLimits

SpecTimed == InitTimed /\ [][Next]_vars

TypeOK ==
    /\ clock \in 1..limits.max_time
    /\ init_ran \in BOOLEAN
    /\ \A s \in presentation_state : s.state \in {"waiting", "voting", "results", "ended"}

(* ---------------- what the claims speak of ---------------- *)
AdminOps == {"create_poll", "activate_poll", "show_results", "end_session"}
HasRow(c) == user_find(Db, to_string(c)) # {}
IsAdmin(c) == \E u \in user : u.user_id = to_string(c) /\ u.role = "admin"
ActivePolls == {p \in poll : p.is_active}
VotesOf(votes, poll_id, user_id) ==
    {v \in votes : v.poll_id = poll_id /\ v.user_id = user_id}
RoleError(op) ==
    CASE op = "create_poll" -> "Only admins can create polls"
      [] op = "activate_poll" -> "Only admins can activate polls"
      [] op = "show_results" -> "Only admins can show results"
      [] op = "end_session" -> "Only admins can end the session"

\* C1: in every reachable state at most one Poll row has is_active = true.
SingleActivePoll == Cardinality(ActivePolls) <= 1

\* a second poll was activated after votes were cast on the first
SingleActivePollWitness ==
    /\ call.op = "activate_poll" /\ call.result = "ok"
    /\ Cardinality(poll) = 2
    /\ \E p \in ActivePolls : \E v \in vote : v.poll_id # p.poll_id

\* C2: in every reachable state there is at most one Vote row for every
\* (poll_id, user_id) pair.
OneVotePerVoter ==
    \A v, w \in vote : (v.poll_id = w.poll_id /\ v.user_id = w.user_id) => v = w

\* the caller voted again after another caller had voted
OneVotePerVoterWitness ==
    /\ call.op = "submit_vote" /\ call.result = "ok"
    /\ Cardinality(vote) = 2
    /\ \E v \in vote : v.user_id = to_string(call.sender) /\ v.vote_id = 1

\* C3: once init has run, every reachable state has exactly one
\* PresentationState row, and its id is 0.
SingletonPresentationState ==
    init_ran => /\ Cardinality(presentation_state) = 1
                /\ \A s \in presentation_state : s.id = 0

\* init was invoked again after callers joined and the state moved on
SingletonPresentationStateWitness ==
    /\ init_ran
    /\ call.op = "init" /\ call.result = UniquePanic
    /\ user # {}
    /\ \E s \in presentation_state : s.state # "waiting"

\* C4: an admin-only reducer called by a caller that has role "user" or no
\* User row returns the role error (or "User not found") whatever its other
\* arguments are, and leaves the five tables as they were.
AdminGate ==
    [][(call'.op \in AdminOps /\ ~IsAdmin(call'.sender)) =>
          /\ call'.result = IF HasRow(call'.sender) THEN RoleError(call'.op)
                            ELSE "User not found"
          /\ tables' = tables]_vars

\* a caller with role "user" tried to activate a poll that does not exist
AdminGateWitness ==
    /\ call.op = "activate_poll"
    /\ call.result = "Only admins can activate polls"
    /\ poll = {}

\* C5: once PresentationState.state is "ended", no later call changes it.
EndedIsTerminal ==
    [][(init_ran /\ \E s \in presentation_state : s.state = "ended") =>
          (\A s \in presentation_state' : s.state = "ended")]_vars

\* C6: create_poll by an admin always succeeds, inserting the Poll row with
\* poll_id = count + 1 and is_active = false and one PollOption row per
\* option, the i-th with option_id = i, linked to the new poll.
CreatePollAlwaysSucceeds ==
    [][\A sender \in Callers, question \in Questions, options \in OptionLists :
          (init_ran /\ call'.op = "create_poll" /\ call'.sender = sender
                    /\ IsAdmin(sender)
                    /\ create_poll_call(sender, question, options, clock')) =>
             LET poll_id == Cardinality(poll) + 1 IN
             /\ call'.result = "ok"
             /\ poll' = poll \cup {[poll_id |-> poll_id, question |-> question,
                                    is_active |-> FALSE, created_at |-> clock']}
             /\ Cardinality(poll') = Cardinality(poll) + 1
             /\ poll_option' = poll_option \cup
                   {[option_id |-> i, poll_id |-> poll_id, text |-> options[i]]
                       : i \in 1..Len(options)}
             /\ Cardinality(poll_option') = Cardinality(poll_option) + Len(options)]_vars

ActivatePollEffect ==
    [][\A sender \in Callers, poll_id \in PollIdArgs :
          (call'.op = "activate_poll" /\ call'.sender = sender /\ IsAdmin(sender)
              /\ activate_poll_call(sender, poll_id, clock')) =>
             IF poll_find(Db, poll_id) # {}
             THEN /\ call'.result = "ok"
                  /\ poll' = {[p EXCEPT !.is_active = (p.poll_id = poll_id)] : p \in poll}
                  /\ presentation_state' = {[id |-> 0, current_poll_id |-> poll_id,
                                             state |-> "voting"]}
                  /\ user' = user /\ poll_option' = poll_option /\ vote' = vote
             ELSE /\ call'.result = "Poll not found"
                  /\ tables' = tables]_vars

\* an admin activated, among two polls, the one that has options
ActivatePollEffectWitness ==
    /\ call.op = "activate_poll" /\ call.result = "ok"
    /\ Cardinality(poll) = 2
    /\ \E p \in ActivePolls :
          /\ \E o \in poll_option : o.poll_id = p.poll_id
          /\ presentation_state = {[id |-> 0, current_poll_id |-> p.poll_id,
                                    state |-> "voting"]}

\* C9: a successful submit_vote(p, o) by a user who has a Vote row for p keeps
\* the number of rows and that row's vote_id, poll_id and user_id, and sets its
\* option_id to o and its voted_at to the call's timestamp; a first vote adds
\* one row with option o; no call changes any other Vote row.  So the stored
\* option is always the one of the user's latest successful vote.
VoteChangeInPlace ==
    [][/\ (call'.op # "submit_vote" \/ call'.result # "ok") => vote' = vote
       /\ \A sender \in Callers, poll_id \in PollIdArgs, option_id \in OptionIdArgs :
             (call'.op = "submit_vote" /\ call'.sender = sender /\ call'.result = "ok"
                 /\ submit_vote_call(sender, poll_id, option_id, clock')) =>
                LET user_id == to_string(sender)
                    mine == VotesOf(vote, poll_id, user_id)
                IN /\ vote' \ VotesOf(vote', poll_id, user_id) = vote \ mine
                   /\ \E n \in VotesOf(vote', poll_id, user_id) :
                         /\ VotesOf(vote', poll_id, user_id) = {n}
                         /\ n.option_id = option_id
                         /\ n.voted_at = clock'
                         /\ mine # {} => /\ Cardinality(vote') = Cardinality(vote)
                                         /\ \A m \in mine : m.vote_id = n.vote_id]_vars

\* the first voter changed its vote at a later time than the second voted
VoteChangeInPlaceWitness ==
    /\ call.op = "submit_vote" /\ call.result = "ok"
    /\ \E v, w \in vote :
          /\ v.user_id = to_string(call.sender) /\ v.vote_id = 1
          /\ v.option_id = 2 /\ v.voted_at = 2
          /\ w.vote_id = 2 /\ w.voted_at = 1

\* C10: submit_vote is rejected, changing nothing, when the caller has no
\* User row, else when the poll does not exist, else when it is not active,
\* else when it has no such option; only when all four checks pass is a Vote
\* row inserted or updated.
SubmitVoteExpected(sender, poll_id, option_id) ==
    IF ~HasRow(sender) THEN "User not found"
    ELSE IF ~ \E p \in poll : p.poll_id = poll_id THEN "Poll not found"
    ELSE IF ~ \E p \in poll : p.poll_id = poll_id /\ p.is_active THEN "Poll is not active"
    ELSE IF ~ \E o \in poll_option : o.poll_id = poll_id /\ o.option_id = option_id
    THEN "Option not found for this poll"
    ELSE "ok"

SubmitVoteChecks ==
    [][\A sender \in Callers, poll_id \in PollIdArgs, option_id \in OptionIdArgs :
          (call'.op = "submit_vote" /\ call'.sender = sender
              /\ submit_vote_call(sender, poll_id, option_id, clock')) =>
             LET e == SubmitVoteExpected(sender, poll_id, option_id) IN
             /\ call'.result = e
             /\ e # "ok" => tables' = tables
             /\ e = "ok" => \E v \in vote' :
                               /\ v.user_id = to_string(sender)
                               /\ v.poll_id = poll_id
                               /\ v.option_id = option_id
                               /\ v.voted_at = clock'
             /\ vote' # vote => e = "ok"]_vars

\* a vote on a poll that has no options at all was rejected because the poll
\* is not active
SubmitVoteChecksWitness ==
    /\ call.op = "submit_vote" /\ call.result = "Poll is not active"
    /\ poll_option = {}

StateIs(x) == \E s \in presentation_state : s.state = x

\* C11 as stated: end_session by an admin sets state "ended", keeps
\* current_poll_id and deactivates every poll, and every submit_vote issued
\* while the session is ended is rejected as poll-inactive.
EndSessionVotesInactive ==
    [][/\ \A sender \in Callers :
             (init_ran /\ call'.op = "end_session" /\ call'.sender = sender
                 /\ IsAdmin(sender) /\ end_session_call(sender, clock')) =>
                /\ call'.result = "ok"
                /\ presentation_state' = {[s EXCEPT !.state = "ended"] : s \in presentation_state}
                /\ poll' = {[p EXCEPT !.is_active = FALSE] : p \in poll}
       /\ (init_ran /\ StateIs("ended") /\ call'.op = "submit_vote") =>
             call'.result = "Poll is not active"]_vars

\* C11 (amended): end_session by an admin sets state "ended", keeps
\* current_poll_id, deactivates every poll and changes nothing else; while no
\* poll is active only a successful activate_poll makes one active, and every
\* submit_vote is rejected, changing nothing: as poll-inactive when the caller
\* has a User row and the poll exists.
EndSessionEffect ==
    [][/\ \A sender \in Callers :
             (call'.op = "end_session" /\ call'.sender = sender
                 /\ IsAdmin(sender) /\ end_session_call(sender, clock')) =>
                /\ call'.result = "ok"
                /\ presentation_state' = {[s EXCEPT !.state = "ended"] : s \in presentation_state}
                /\ Cardinality(presentation_state') = 1
                /\ poll' = {[p EXCEPT !.is_active = FALSE] : p \in poll}
                /\ user' = user /\ poll_option' = poll_option /\ vote' = vote
       /\ (ActivePolls = {} /\ ~(call'.op = "activate_poll" /\ call'.result = "ok")) =>
             {p \in poll' : p.is_active} = {}
       /\ \A sender \in Callers, poll_id \in PollIdArgs, option_id \in OptionIdArgs :
             (ActivePolls = {} /\ call'.op = "submit_vote" /\ call'.sender = sender
                 /\ submit_vote_call(sender, poll_id, option_id, clock')) =>
                /\ call'.result # "ok"
                /\ tables' = tables
                /\ (HasRow(sender) /\ poll_find(Db, poll_id) # {}) =>
                      call'.result = "Poll is not active"]_vars

\* after end_session a vote on the poll that had been voted on was rejected
EndSessionEffectWitness ==
    /\ call.op = "submit_vote" /\ call.result = "Poll is not active"
    /\ StateIs("ended")
    /\ vote # {}

\* C13: show_results by an admin changes only PresentationState.state, to
\* "results": current_poll_id stays, and the User, Poll, PollOption and Vote
\* tables stay as they were.
ShowResultsFrame ==
    [][\A sender \in Callers :
          (call'.op = "show_results" /\ call'.sender = sender /\ IsAdmin(sender)
              /\ show_results_call(sender, clock')) =>
             /\ call'.result = "ok"
             /\ presentation_state' =
                   {[s EXCEPT !.state = "results"] : s \in presentation_state}
             /\ Cardinality(presentation_state') = 1
             /\ user' = user /\ poll' = poll
             /\ poll_option' = poll_option /\ vote' = vote]_vars

\* results were shown while the current poll, which has a vote, was active
ShowResultsFrameWitness ==
    /\ call.op = "show_results" /\ call.result = "ok"
    /\ \E s \in presentation_state, p \in ActivePolls :
          /\ s.state = "results" /\ s.current_poll_id = p.poll_id
          /\ \E v \in vote : v.poll_id = p.poll_id

\* C14: with reducers run one after the other, the poll_id values are exactly
\* 1..number of Poll rows and the vote_id values exactly 1..number of Vote
\* rows, so the insert of a new Poll row or of a new Vote row never meets an
\* existing primary key.
CountAllocatedIds ==
    /\ {p.poll_id : p \in poll} = 1..Cardinality(poll)
    /\ {v.vote_id : v \in vote} = 1..Cardinality(vote)
    /\ call.op = "submit_vote" => call.result # UniquePanic
    /\ \A p \in poll : poll_insert(Db, [poll_id |-> Cardinality(poll) + 1,
                                        question |-> p.question, is_active |-> FALSE,
                                        created_at |-> clock]).result = "ok"
    /\ \A v \in vote : vote_insert(Db, [v EXCEPT !.vote_id = Cardinality(vote) + 1]).result = "ok"

\* two polls were created and the second vote was inserted
CountAllocatedIdsWitness ==
    /\ call.op = "submit_vote" /\ call.result = "ok"
    /\ Cardinality(poll) = 2
    /\ Cardinality(vote) = 2

\* C15: PresentationState.state becomes "results" only from "voting" and only
\* by show_results, and becomes "voting" only by activate_poll; "results" is
\* never entered from "waiting".
StateMachineOrdering ==
    [][init_ran =>
          /\ (~StateIs("results") /\ \E s \in presentation_state' : s.state = "results")
                => (StateIs("voting") /\ call'.op = "show_results")
          /\ (~StateIs("voting") /\ \E s \in presentation_state' : s.state = "voting")
                => call'.op = "activate_poll"]_vars

CurrentPollId == {s.current_poll_id : s \in presentation_state}

\* C18: the active poll and the presentation state agree: an active poll is
\* the one named by current_poll_id and the state is then "voting" or
\* "results"; while the state is "waiting" or "ended" no poll is active, and
\* while it is "voting" the poll named by current_poll_id exists and is active.
ActivePollAgreesWithState ==
    /\ \A p \in ActivePolls :
          /\ CurrentPollId = {p.poll_id}
          /\ StateIs("voting") \/ StateIs("results")
    /\ (StateIs("waiting") \/ StateIs("ended")) => ActivePolls = {}
    /\ StateIs("voting") =>
          \E p \in ActivePolls : CurrentPollId = {p.poll_id}

\* the session was ended while the second of two polls was active
ActivePollAgreesWithStateWitness ==
    /\ call.op = "end_session" /\ call.result = "ok"
    /\ StateIs("ended")
    /\ CurrentPollId = {2}
    /\ Cardinality(poll) = 2

\* C19: every Vote row's user_id is the key of a User row, its poll_id the key
\* of a Poll row, and a PollOption row has its (poll_id, option_id) pair; every
\* PollOption row's poll_id is the key of a Poll row.
ReferentialIntegrity ==
    /\ \A v \in vote :
          /\ user_find(Db, v.user_id) # {}
          /\ poll_find(Db, v.poll_id) # {}
          /\ \E o \in poll_option : o.poll_id = v.poll_id /\ o.option_id = v.option_id
    /\ \A o \in poll_option : poll_find(Db, o.poll_id) # {}

\* a vote for the second option was stored while a poll without options exists
ReferentialIntegrityWitness ==
    /\ call.op = "submit_vote" /\ call.result = "ok"
    /\ \E v \in vote : v.option_id = 2
    /\ \E p \in poll : \A o \in poll_option : o.poll_id # p.poll_id

RoleOf(users, c) == {u.role : u \in {x \in users : x.user_id = to_string(c)}}

\* C20: the admin gate reads the role stored for the caller at the time of the
\* call, and join_session lets any caller store the role it names: an
\* admin-only call gets the role error exactly when the stored role is "user";
\* join_session(_, "admin") always makes the caller pass the gate from then
\* on and join_session(_, "user") makes it fail, until the caller joins again.
StoredRoleGate ==
    [][/\ call'.op \in AdminOps =>
             /\ (call'.result = RoleError(call'.op)) <=> (RoleOf(user, call'.sender) = {"user"})
             /\ RoleOf(user, call'.sender) = {"admin"} => call'.result # "User not found"
       /\ \A sender \in Callers, session_id \in limits.sessions, role \in {"user", "admin"} :
             (call'.op = "join_session" /\ call'.sender = sender
                 /\ join_session_call(sender, session_id, role, clock')) =>
                /\ call'.result = "ok"
                /\ RoleOf(user', sender) = {role}
       /\ \A c \in Callers :
             ~(call'.op = "join_session" /\ call'.sender = c /\ call'.result = "ok")
                => RoleOf(user', c) = RoleOf(user, c)]_vars

\* the only caller that ever joined activated a poll as admin, joined again as
\* "user" and was then refused the activation
StoredRoleGateWitness ==
    /\ call.op = "activate_poll"
    /\ call.result = "Only admins can activate polls"
    /\ Cardinality(user) = 1
    /\ RoleOf(user, call.sender) = {"user"}
    /\ ActivePolls # {}

\* the same reducers with callers that come back under another session id at
\* a later time
JoinLimits == [max_time |-> 2, max_polls |-> 1, sessions |-> {"s1", "s2"},
               init_first |-> TRUE]

InitJoin ==
    /\ user = {}
    /\ poll = {}
    /\ poll_option = {}
    /\ vote = {}
    /\ presentation_state = {}
    /\ clock = 1
    /\ init_ran = FALSE
    /\ call = NoCall
    /\ pending = NoPending
    /\ limits = JoinLimits

\* join_session reads and writes the User and PresentationState tables only:
\* the reducers that write those or decide by them, without the votes
NextJoin ==
    \/ init
    \/ join_session
    \/ create_poll
    \/ activate_poll
    \/ show_results
    \/ end_session

SpecJoin == InitJoin /\ [][NextJoin]_vars

\* C12: join_session is an upsert keyed by the caller's identity: there is one
\* User row per identity that joined with a valid role; a repeated call keeps
\* the number of rows and stores the latest call's timestamp, session_id and
\* role in place of the old ones; a call with a role other than "user" or
\* "admin" fails and changes nothing.  No other reducer writes the User table.
JoinSessionUpsert ==
    [][/\ \A sender \in Callers, session_id \in limits.sessions, role \in RoleArgs :
             (call'.op = "join_session" /\ call'.sender = sender
                 /\ join_session_call(sender, session_id, role, clock')) =>
                IF role \in {"user", "admin"}
                THEN /\ call'.result = "ok"
                     /\ user' = {u \in user : u.user_id # to_string(sender)} \cup
                                {[user_id |-> to_string(sender), session_id |-> session_id,
                                  role |-> role, connected_at |-> clock']}
                     /\ Cardinality(user') = Cardinality(user) + (IF HasRow(sender) THEN 0 ELSE 1)
                     /\ poll' = poll /\ poll_option' = poll_option /\ vote' = vote
                ELSE /\ call'.result = "Invalid role. Must be 'user' or 'admin'"
                     /\ tables' = tables
       /\ call'.op # "join_session" => user' = user
       /\ \A u, w \in user' : u.user_id = w.user_id => u = w]_vars

\* a caller that had joined as admin under "s1" at time 1 and created a poll
\* came back as "user" under "s2" at time 2, with another caller's row in place
JoinSessionUpsertWitness ==
    /\ call.op = "join_session" /\ call.result = "ok"
    /\ Cardinality(user) = 2
    /\ \E u \in user : /\ u.user_id = to_string(call.sender)
                       /\ u.session_id = "s2" /\ u.role = "user" /\ u.connected_at = 2
    /\ \E u \in user : u.user_id # to_string(call.sender) /\ u.role = "user" /\ u.connected_at = 1
    /\ \E p \in poll : p.created_at = 1 /\ p.is_active

\* the same reducers on a host that serves callers whether or not init has run
LazyLimits == [max_time |-> 1, max_polls |-> MaxPolls, sessions |-> {"s1"},
               init_first |-> FALSE]

InitLazy ==
    /\ user = {}
    /\ poll = {}
    /\ poll_option = {}
    /\ vote = {}
    /\ presentation_state = {}
    /\ clock = 1
    /\ init_ran = FALSE
    /\ call = NoCall
    /\ pending = NoPending
    /\ limits = LazyLimits

SpecLazy == InitLazy /\ [][Next]_vars

\* C17: whenever a User row exists the PresentationState row exists, whether
\* or not init has run; so no call ends with "Presentation state not found",
\* a successful activate_poll always stores {poll_id, "voting"}, and
\* join_session leaves a PresentationState row that exists as it is.
StateRowFollowsUser ==
    [][/\ user' # {} => /\ Cardinality(presentation_state') = 1
                        /\ presentation_state_find(Db', 0) # {}
       /\ call'.result # "Presentation state not found"
       /\ (call'.op = "activate_poll" /\ call'.result = "ok") =>
             /\ StateIs("voting")'
             /\ CurrentPollId' = {p.poll_id : p \in ActivePolls'}
       /\ (call'.op = "join_session" /\ presentation_state # {}) =>
             presentation_state' = presentation_state]_vars

\* init never ran, the state row made by a first join has moved on to
\* "results", and a further caller joined without resetting it
StateRowFollowsUserWitness ==
    /\ ~init_ran
    /\ call.op = "join_session" /\ call.result = "ok"
    /\ Cardinality(user) = 2
    /\ StateIs("results")
    /\ ActivePolls # {}

(* ---------------- reducers that are not run to completion ---------------- *)
\* a host that lets another call run between a reducer's read of the row
\* count and its insert: create_poll and submit_vote in two steps each

\* the admin check of create_poll: "ok" or the error it returns
create_poll_checks(db, sender) ==
    LET found == user_find(db, to_string(sender)) IN
    IF found = {} THEN "User not found"
    ELSE IF (CHOOSE u \in found : TRUE).role # "admin"
    THEN "Only admins can create polls"
    ELSE "ok"

\* an insert that numbers the poll by the row count it finds when it inserts
create_poll_insert_fresh(db, poll_id, question, options, ts) ==
    Then(poll_insert(db, [poll_id |-> Cardinality(db.poll) + 1, question |-> question,
                          is_active |-> FALSE, created_at |-> ts]),
         LAMBDA d : insert_options(d, Cardinality(db.poll) + 1, options, 1))

\* the inserts of create_poll with the poll_id computed before them
create_poll_insert(db, poll_id, question, options, ts) ==
    Then(poll_insert(db, [poll_id |-> poll_id, question |-> question,
                          is_active |-> FALSE, created_at |-> ts]),
         LAMBDA d : insert_options(d, poll_id, options, 1))

\* the four checks of submit_vote: "ok" or the error it returns
submit_vote_checks(db, sender, poll_id, option_id) ==
    IF user_find(db, to_string(sender)) = {} THEN "User not found"
    ELSE IF poll_find(db, poll_id) = {} THEN "Poll not found"
    ELSE IF ~ (CHOOSE p \in poll_find(db, poll_id) : TRUE).is_active
    THEN "Poll is not active"
    ELSE IF ~ \E o \in db.poll_option : o.poll_id = poll_id /\ o.option_id = option_id
    THEN "Option not found for this poll"
    ELSE "ok"

\* create_poll up to and with the read of the row count
create_poll_begin_call(sender, question, options, ts) ==
    /\ Serving
    /\ pending[sender] = Idle
    /\ Cardinality(poll) < limits.max_polls
    /\ LET e == create_poll_checks(Db, sender) IN
       IF e # "ok"
       THEN /\ Run("create_poll", sender, ts, Err(Db, e))
            /\ UNCHANGED pending
       ELSE /\ pending' = [pending EXCEPT ![sender] =
                              [op |-> "create_poll", id |-> Cardinality(poll) + 1,
                               question |-> question, options |-> options, ts |-> ts]]
            /\ clock' = ts
            /\ UNCHANGED <<tables, call, limits>>
    /\ UNCHANGED init_ran

create_poll_begin ==
    \E sender \in Callers, question \in Questions, options \in OptionLists,
       ts \in clock..limits.max_time :
        create_poll_begin_call(sender, question, options, ts)

\* create_poll from the insert of the Poll row on
create_poll_finish_call(sender) ==
    /\ pending[sender].op = "create_poll"
    /\ LET p == pending[sender] IN
       Run("create_poll", sender, clock,
           create_poll_insert(Db, p.id, p.question, p.options, p.ts))
    /\ pending' = [pending EXCEPT ![sender] = Idle]
    /\ UNCHANGED init_ran

create_poll_finish == \E sender \in Callers : create_poll_finish_call(sender)

\* submit_vote up to and with the read of the row count; a vote that is
\* found is updated at once
submit_vote_begin_call(sender, poll_id, option_id, ts) ==
    /\ Serving
    /\ pending[sender] = Idle
    /\ LET e == submit_vote_checks(Db, sender, poll_id, option_id)
           existing == existing_vote_id(Db, poll_id, to_string(sender))
       IN IF e # "ok"
          THEN /\ Run("submit_vote", sender, ts, Err(Db, e))
               /\ UNCHANGED pending
          ELSE IF existing # {}
          THEN /\ Run("submit_vote", sender, ts,
                      update_existing_vote(Db, CHOOSE id \in existing : TRUE,
                                           poll_id, to_string(sender), option_id, ts))
               /\ UNCHANGED pending
          ELSE /\ pending' = [pending EXCEPT ![sender] =
                                 [op |-> "submit_vote", id |-> Cardinality(vote) + 1,
                                  poll_id |-> poll_id, option_id |-> option_id,
                                  ts |-> ts]]
               /\ clock' = ts
               /\ UNCHANGED <<tables, call, limits>>
    /\ UNCHANGED init_ran

submit_vote_begin ==
    \E sender \in Callers, poll_id \in PollIdArgs, option_id \in OptionIdArgs,
       ts \in clock..limits.max_time :
        submit_vote_begin_call(sender, poll_id, option_id, ts)

\* submit_vote from the insert of the Vote row on
submit_vote_finish_call(sender) ==
    /\ pending[sender].op = "submit_vote"
    /\ LET p == pending[sender] IN
       Run("submit_vote", sender, clock,
           vote_insert(Db, [vote_id |-> p.id, poll_id |-> p.poll_id,
                            user_id |-> to_string(sender),
                            option_id |-> p.option_id, voted_at |-> p.ts]))
    /\ pending' = [pending EXCEPT ![sender] = Idle]
    /\ UNCHANGED init_ran

submit_vote_finish == \E sender \in Callers : submit_vote_finish_call(sender)

InterleavedLimits == [max_time |-> 1, max_polls |-> 2, sessions |-> {"s1"},
                      init_first |-> TRUE]

InitInterleaved ==
    /\ user = {}
    /\ poll = {}
    /\ poll_option = {}
    /\ vote = {}
    /\ presentation_state = {}
    /\ clock = 1
    /\ init_ran = FALSE
    /\ call = NoCall
    /\ pending = NoPending
    /\ limits = InterleavedLimits

NextInterleaved ==
    \/ init
    \/ join_session
    \/ activate_poll
    \/ create_poll_begin
    \/ create_poll_finish
    \/ submit_vote_begin
    \/ submit_vote_finish

SpecInterleaved == InitInterleaved /\ [][NextInterleaved]_vars

\* the id a call in flight has computed is still count + 1
Fresh(c) ==
    CASE pending[c].op = "create_poll" -> pending[c].id = Cardinality(poll) + 1
      [] pending[c].op = "submit_vote" -> pending[c].id = Cardinality(vote) + 1
      [] OTHER -> TRUE

\* C16: the count-based allocator depends on serialization.  A call computes
\* count + 1; when another call of the same reducer runs between that read and
\* the insert, both hold the same id and the later insert hits the primary key
\* of the row the earlier one stored; an id goes stale only by the insert of a
\* call that was in flight at the same time, so calls that run to completion
\* one after the other never meet a duplicate poll_id or vote_id.
AllocatorNeedsSerialization ==
    [][\A sender \in Callers :
          /\ (pending[sender] = Idle /\ pending'[sender] # Idle) => Fresh(sender)'
          /\ (Fresh(sender) /\ ~Fresh(sender)') =>
                \E other \in Callers \ {sender} :
                   /\ pending[other].op = pending[sender].op
                   /\ pending[other].id = pending[sender].id
                   /\ pending'[other] = Idle
                   /\ call'.sender = other /\ call'.result = "ok"
          /\ (pending[sender].op = "create_poll" /\ call'.sender = sender
                 /\ create_poll_finish_call(sender)) =>
                LET p == pending[sender] IN
                /\ ~Fresh(sender) <=> \E q \in poll : q.poll_id = p.id
                /\ ~Fresh(sender) => (call'.result = UniquePanic /\ tables' = tables)
                /\ (Fresh(sender) /\ call'.result # "ok") =>
                      \E o \in poll_option : o.option_id \in 1..Len(p.options)
                /\ call'.result = "ok" => \E q \in poll' \ poll : q.poll_id = p.id
          /\ (pending[sender].op = "submit_vote" /\ call'.sender = sender
                 /\ submit_vote_finish_call(sender)) =>
                LET p == pending[sender] IN
                /\ ~Fresh(sender) <=> \E v \in vote : v.vote_id = p.id
                /\ ~Fresh(sender) => (call'.result = UniquePanic /\ tables' = tables)
                /\ Fresh(sender) =>
                      /\ call'.result = "ok"
                      /\ \E v \in vote' \ vote : v.vote_id = p.id]_vars

\* two first votes were in flight together: the first was stored with
\* vote_id 1 and the second, holding the same id, hit the primary key
AllocatorNeedsSerializationWitness ==
    /\ call.op = "submit_vote" /\ call.result = UniquePanic
    /\ Cardinality(vote) = 1
    /\ \A v \in vote : v.user_id # to_string(call.sender)
    /\ pending = NoPending

====
